---- MODULE Spec2Model ----
(***************************************************************************)
(* Market State Engine (src/src/python_mse/compute.py): the signal and     *)
(* state computation, as a state machine of one run of compute_signals     *)
(* (Spec), of two runs on the same arguments (SpecTwice), of a full run of *)
(* main from the input files to the output file (SpecMain), and as direct  *)
(* calls of its pure functions (SpecFn).                                   *)
(*                                                                         *)
(* Numbers: pandas computes in binary floating point; the model computes   *)
(* in exact rationals [n, d] (d > 0, lowest terms).  NaN is the rational   *)
(* 0/0, Python's None is the record None.                                  *)
(***************************************************************************)
EXTENDS Integers, Sequences, FiniteSets, TLC

VARIABLES
    prices_wide,   \* the caller's price table: rows [date, px], in supplied order
    window,        \* compute_signals' window argument (legacy path)
    config,        \* the loaded configuration, or NoConfig (config=None)
    pc,            \* position in the run
    df,            \* the sorted copy of the table
    signal_data,   \* per signal: name, value series, SMA series, rule
    all_tickers,   \* the set of tickers collected for inputs.tickers
    out,           \* the records built so far
    records,       \* what the run returned (NotReturned until it returns)
    error,         \* the exception that ended the run (NoError while none)
    call,          \* SpecFn: the function called and its arguments
    ret,           \* SpecFn: what the call returned
    stage,         \* SpecMain: position in main ("call" outside main)
    file,          \* SpecMain: the output file at args.out
    before,        \* SpecMain: the output file as it was when main started
    previous       \* SpecTwice: the outcome of the first of two runs

vars == <<prices_wide, window, config, pc, df, signal_data, all_tickers,
          out, records, error, call, ret, stage, file, before, previous>>

mainVars == <<stage, file, before, previous>>

runVars == <<prices_wide, window, config, pc, df, signal_data, all_tickers,
             out, records, error>>

-----------------------------------------------------------------------------
(* Bounds of the model. *)

MaxDates == 3
MaxPrice == 2
MaxWindow == 3

-----------------------------------------------------------------------------
(* Values. *)

NaN == [n |-> 0, d |-> 0]
None == [none |-> TRUE]
NoKey == "<no key>"
NonStr == "<not a str>"
NoneStr == "<None>"

isna(x) == x = NaN \/ x = None

RECURSIVE GCD(_, _)
GCD(a, b) == IF b = 0 THEN a ELSE GCD(b, a % b)

Frac(n, d) == LET g == GCD(n, d) IN [n |-> n \div g, d |-> d \div g]

Num(p) == [n |-> p, d |-> 1]

\* a / b of two Series cells: NaN propagates
Div(a, b) == IF isna(a) \/ isna(b) THEN NaN ELSE Frac(a.n * b.d, a.d * b.n)

Add(a, b) == Frac(a.n * b.d + b.n * a.d, a.d * b.d)

\* a < b, a > b; every comparison with NaN is False
Less(a, b) == ~isna(a) /\ ~isna(b) /\ a.n * b.d < b.n * a.d
Greater(a, b) == Less(b, a)

\* dict.get(key, default) of a key that may be absent
Get(v, default) == IF v = NoKey THEN default ELSE v

\* row[key] = val
Put(row, key, val) ==
    [k \in (DOMAIN row) \cup {key} |-> IF k = key THEN val ELSE row[k]]

EmptyDict == [k \in {} |-> 0]

Range(s) == {s[i] : i \in 1..Len(s)}

-----------------------------------------------------------------------------
(* Series. *)

RECURSIVE WindowSum(_, _, _)
WindowSum(series, lo, hi) ==
    IF lo > hi THEN Num(0) ELSE Add(WindowSum(series, lo, hi - 1), series[hi])

\* the mutant of RollingMeanAt: the mean of a partial window (min_periods=1)
RollingMeanAtPartial(series, w, t) ==
    LET lo == IF t < w THEN 1 ELSE t - w + 1
    IN IF \E j \in lo..t : isna(series[j])
       THEN NaN
       ELSE Div(WindowSum(series, lo, t), Num(t - lo + 1))

\* series.rolling(window=w).mean(): min_periods is the window, so a date has
\* a mean only when its w trailing values all exist and none is NaN
RollingMeanAt(series, w, t) ==
    IF t < w \/ \E j \in (t - w + 1)..t : isna(series[j])
    THEN NaN
    ELSE Div(WindowSum(series, t - w + 1, t), Num(w))

RollingMean(series, w) == [t \in 1..Len(series) |-> RollingMeanAt(series, w, t)]

\* df[ticker]
Column(frame, ticker) == [t \in 1..Len(frame) |-> frame[t].px[ticker]]

\* df[a] / df[b]
Ratio(frame, a, b) ==
    [t \in 1..Len(frame) |-> Div(frame[t].px[a], frame[t].px[b])]

\* the mutant of SortIndex: the copy taken without sorting
SortIndexNone(frame) == frame

\* prices_wide.sort_index().copy(): the rows in date order (dates are distinct)
RECURSIVE SortIndex(_)
SortIndex(frame) ==
    IF Len(frame) = 0 THEN <<>>
    ELSE LET m == CHOOSE i \in 1..Len(frame) :
                      \A j \in 1..Len(frame) : frame[i].date <= frame[j].date
             rest == [k \in 1..(Len(frame) - 1) |->
                          IF k < m THEN frame[k] ELSE frame[k + 1]]
         IN <<frame[m]>> \o SortIndex(rest)

\* pd.to_datetime(date).strftime("%Y-%m-%d"); dates are days of January 2025
Strftime(date) == <<2025, 1, date>>

-----------------------------------------------------------------------------
(* Signal classification. *)

UnknownRule(rule) == [type |-> "ValueError", field |-> "rule", what |-> rule]

\* the mutant of Classify: a tie classified UP under gt_sma
ClassifyGe(value, sma, rule) ==
    IF rule = "gt_sma" THEN [signal |-> IF ~Less(value, sma) THEN "UP" ELSE "DOWN"]
    ELSE IF rule = "lt_sma" THEN [signal |-> IF Less(value, sma) THEN "UP" ELSE "DOWN"]
    ELSE [raise |-> UnknownRule(rule)]

\* compute_signals_v2's rule branch: the rule applied to a value and a defined SMA
Classify(value, sma, rule) ==
    IF rule = "gt_sma" THEN [signal |-> IF Greater(value, sma) THEN "UP" ELSE "DOWN"]
    ELSE IF rule = "lt_sma" THEN [signal |-> IF Less(value, sma) THEN "UP" ELSE "DOWN"]
    ELSE [raise |-> UnknownRule(rule)]

\* line 41 / line 43 with val = None: Python does not order None and a float
TypeError(op) == [type |-> "TypeError", field |-> op, what |-> "NoneType"]

compute_signal(value_series, sma_series, rule) ==
    LET val == IF Len(value_series) > 0 THEN value_series[Len(value_series)] ELSE None
        sma == IF Len(sma_series) > 0 THEN sma_series[Len(sma_series)] ELSE None
    IN IF isna(sma) THEN [signal |-> "NA", value |-> val, sma |-> None]
       ELSE IF rule = "gt_sma"
            THEN IF val = None THEN [raise |-> TypeError(">")]
                 ELSE [signal |-> IF Greater(val, sma) THEN "UP" ELSE "DOWN",
                       value |-> val, sma |-> sma]
       ELSE IF rule = "lt_sma"
            THEN IF val = None THEN [raise |-> TypeError("<")]
                 ELSE [signal |-> IF Less(val, sma) THEN "UP" ELSE "DOWN",
                       value |-> val, sma |-> sma]
       ELSE [raise |-> UnknownRule(rule)]

-----------------------------------------------------------------------------
(* Configuration values.  A YAML value that the code tests with isinstance  *)
(* carries its kind: "list", "dict", or "other" (any other type, or absent, *)
(* which .get turns into None).                                             *)

List(items) == [kind |-> "list", items |-> items]
Other == [kind |-> "other", items |-> <<>>]

\* a condition object {signal: s, is: v}; NoKey for a key that is absent
Cond(s, v) == [kind |-> "dict", signal |-> s, is |-> v]
NotACond == [kind |-> "other", signal |-> NoKey, is |-> NoKey]

\* a label definition: {default: true}, {all: [...]}, both, or neither
LabelDef(default, has_all, all) ==
    [kind |-> "dict", default |-> default, has_all |-> has_all, all |-> all]
DefaultLabel == LabelDef(TRUE, FALSE, Other)
AllLabel(conds) == LabelDef(FALSE, TRUE, List(conds))
NotALabelDef == [kind |-> "other", default |-> FALSE, has_all |-> FALSE, all |-> Other]

\* labels: a mapping in the file's key order
Labels(entries) == [kind |-> "dict", items |-> entries]
Entry(name, def) == [name |-> name, def |-> def]

\* labels.get(label): the definition, or None
LabelsGet(labels, label) ==
    IF \E i \in 1..Len(labels.items) : labels.items[i].name = label
    THEN labels.items[CHOOSE i \in 1..Len(labels.items) :
                          labels.items[i].name = label].def
    ELSE NotALabelDef

ValueError(field, label) == [type |-> "ValueError", field |-> field, what |-> label]
Valid == [type |-> "ok", field |-> "", what |-> ""]

-----------------------------------------------------------------------------
(* validate_market_state_config *)

\* lines 88-98: the first offending entry of a condition list
RECURSIVE ValidateConditions(_, _, _)
ValidateConditions(label, conditions, i) ==
    IF i > Len(conditions) THEN Valid
    ELSE IF conditions[i].kind # "dict"
         THEN ValueError("labels.<label>.all entries must be dicts", label)
    ELSE IF conditions[i].signal = NoKey \/ conditions[i].is = NoKey
         THEN ValueError("labels.<label>.all entries require signal and is", label)
    ELSE ValidateConditions(label, conditions, i + 1)

\* the mutant of ValidateLabel: a default marker accepted whatever its all key
ValidateLabelDefaultFirst(labels, label) ==
    LET label_def == LabelsGet(labels, label)
    IN IF label_def.kind # "dict"
       THEN ValueError("labels.<label> must be a dict", label)
       ELSE IF label_def.default THEN Valid
       ELSE IF ~label_def.has_all \/ label_def.all.kind # "list"
                \/ Len(label_def.all.items) = 0
            THEN ValueError("labels.<label>.all must be a non-empty list", label)
       ELSE ValidateConditions(label, label_def.all.items, 1)

\* lines 73-98: one label of labels_order
ValidateLabel(labels, label) ==
    LET label_def == LabelsGet(labels, label)
    IN IF label_def.kind # "dict"
       THEN ValueError("labels.<label> must be a dict", label)
       ELSE LET has_default == label_def.default
                has_all == label_def.has_all
                conditions == IF has_all THEN label_def.all ELSE Other
            IN IF has_default /\ ~has_all THEN Valid
               ELSE IF conditions.kind # "list" \/ Len(conditions.items) = 0
                    THEN ValueError("labels.<label>.all must be a non-empty list", label)
               ELSE ValidateConditions(label, conditions.items, 1)

\* lines 72-98: the labels of labels_order, in order, to the first error
RECURSIVE ValidateLabels(_, _, _)
ValidateLabels(labels, labels_order, i) ==
    IF i > Len(labels_order) THEN Valid
    ELSE LET v == ValidateLabel(labels, labels_order[i])
         IN IF v # Valid THEN v ELSE ValidateLabels(labels, labels_order, i + 1)

\* Valid, or the ValueError raised
validate_market_state_config(cfg) ==
    LET market_state == cfg.market_state
    IN IF market_state.kind # "dict"
       THEN ValueError("market_state", "")
       ELSE LET required_signals == market_state.required_signals
                labels_order == market_state.labels_order
                labels == market_state.labels
            IN IF required_signals.kind # "list" \/ Len(required_signals.items) = 0
               THEN ValueError("required_signals must be a non-empty list", "")
               ELSE IF \E i \in 1..Len(required_signals.items) :
                           required_signals.items[i] = NonStr
               THEN ValueError("required_signals must contain only strings", "")
               ELSE IF labels_order.kind # "list" \/ Len(labels_order.items) = 0
               THEN ValueError("labels_order must be a non-empty list", "")
               ELSE IF \E i \in 1..Len(labels_order.items) :
                           labels_order.items[i] = NonStr
               THEN ValueError("labels_order must contain only strings", "")
               ELSE IF labels.kind # "dict"
               THEN ValueError("labels must be a dict", "")
               ELSE ValidateLabels(labels, labels_order.items, 1)

-----------------------------------------------------------------------------
(* State classification. *)

\* signals.get(name) of the fixed rule: the classification, or None
SignalsGet(signals, name) ==
    IF name \in DOMAIN signals THEN signals[name] ELSE NoneStr

\* the mutant of compute_market_state: rates left out of the NA test
compute_market_state_two(signals) ==
    LET label ==
            IF SignalsGet(signals, "tech") = "NA" \/ SignalsGet(signals, "utilities") = "NA"
            THEN "NA"
            ELSE IF /\ SignalsGet(signals, "tech") = "UP"
                    /\ SignalsGet(signals, "utilities") = "DOWN"
                    /\ SignalsGet(signals, "rates") = "DOWN"
            THEN "RISK_ON"
            ELSE IF /\ SignalsGet(signals, "tech") = "DOWN"
                    /\ SignalsGet(signals, "utilities") = "UP"
                    /\ SignalsGet(signals, "rates") = "UP"
            THEN "RISK_OFF"
            ELSE "MIXED"
    IN [label |-> label, rule |-> "v0.3_basic"]

compute_market_state(signals) ==
    LET required == <<"tech", "utilities", "rates">>
        label ==
            IF \E i \in 1..Len(required) : SignalsGet(signals, required[i]) = "NA"
            THEN "NA"
            ELSE IF /\ SignalsGet(signals, "tech") = "UP"
                    /\ SignalsGet(signals, "utilities") = "DOWN"
                    /\ SignalsGet(signals, "rates") = "DOWN"
            THEN "RISK_ON"
            ELSE IF /\ SignalsGet(signals, "tech") = "DOWN"
                    /\ SignalsGet(signals, "utilities") = "UP"
                    /\ SignalsGet(signals, "rates") = "UP"
            THEN "RISK_OFF"
            ELSE "MIXED"
    IN [label |-> label, rule |-> "v0.3_basic"]

\* the mutant of IsMissing: an NA classification not counted as missing
IsMissingAbsentOnly(signals, name) ==
    \/ name \notin DOMAIN signals
    \/ "signal" \notin DOMAIN signals[name]

\* lines 112-119: is this required signal absent from signals, or NA
IsMissing(signals, name) ==
    \/ name \notin DOMAIN signals
    \/ "signal" \notin DOMAIN signals[name]
    \/ signals[name].signal = "NA"

\* line 124: the classifications of the required signals, by name
Actual(signals, required_signals) ==
    [name \in Range(required_signals) |-> signals[name].signal]

\* line 133: do all conditions of a label hold of actual
Matches(actual, conditions) ==
    \A i \in 1..Len(conditions) :
        (IF conditions[i].signal \in DOMAIN actual
         THEN actual[conditions[i].signal] ELSE NoneStr) = conditions[i].is

\* lines 128-135: the first label of labels_order that matches, or NoneStr
RECURSIVE FirstMatch(_, _, _, _)
FirstMatch(actual, labels, labels_order, i) ==
    IF i > Len(labels_order) THEN NoneStr
    ELSE LET label_def == LabelsGet(labels, labels_order[i])
             conditions == IF label_def.has_all /\ label_def.all.kind = "list"
                           THEN label_def.all.items ELSE <<>>
         IN IF Len(conditions) > 0 /\ Matches(actual, conditions)
            THEN labels_order[i]
            ELSE FirstMatch(actual, labels, labels_order, i + 1)

\* lines 137-141: the first label of labels, in the mapping's own order, that
\* is marked default; NoneStr when none is
RECURSIVE DefaultOf(_, _)
DefaultOf(entries, i) ==
    IF i > Len(entries) THEN NoneStr
    ELSE IF entries[i].def.kind # "dict" THEN NonStr
    ELSE IF entries[i].def.default THEN entries[i].name
    ELSE DefaultOf(entries, i + 1)

\* the mutant of NaLabel: the configured label ignored
NaLabelFixed(market_state) == "NA"

\* lines 105-106: output.na_label, "NA" when not configured
NaLabel(market_state) == Get(market_state.output.na_label, "NA")

compute_market_state_v04(signals, cfg) ==
    LET v == validate_market_state_config(cfg)
    IN IF v # Valid THEN [raise |-> v]
       ELSE
       LET market_state == cfg.market_state
           na_label == NaLabel(market_state)
           required_signals == market_state.required_signals.items
           missing == SelectSeq(required_signals,
                                LAMBDA name : IsMissing(signals, name))
       IN IF market_state.enabled = "false"
          THEN [label |-> na_label, rule |-> "disabled"]
          ELSE IF Len(missing) > 0
          THEN [label |-> na_label, rule |-> "v0.4_config", missing |-> missing]
          ELSE
          LET actual == Actual(signals, required_signals)
              matched == FirstMatch(actual, market_state.labels,
                                    market_state.labels_order.items, 1)
              default_label == DefaultOf(market_state.labels.items, 1)
          IN IF matched # NoneStr
             THEN [label |-> matched, rule |-> "v0.4_config"]
             ELSE IF default_label = NonStr
             THEN [raise |-> [type |-> "AttributeError", field |-> "labels",
                              what |-> "get"]]
             ELSE IF default_label # NoneStr
             THEN [label |-> default_label, rule |-> "v0.4_config"]
             ELSE [label |-> "MIXED", rule |-> "v0.4_config"]

-----------------------------------------------------------------------------
(* The run: compute_signals(prices_wide, window, config). *)

NoConfig == [none |-> TRUE]
NotReturned == [returned |-> FALSE]
NoError == [type |-> "none", field |-> "", what |-> ""]
KeyError(key) == [type |-> "KeyError", field |-> "column", what |-> key]

\* window: int = 20, and config.get("window", 20): a configuration without
\* the key is read as the one whose window is 20
DefaultWindow == 20

\* lines 196-204 collect a set; sorted() puts the names in string order
TickerOrder == <<"A", "B", "QQQ", "SPY", "TLT", "XLE", "XLK", "XLU">>

RECURSIVE SortedFrom(_, _)
SortedFrom(tickers, i) ==
    IF i > Len(TickerOrder) THEN <<>>
    ELSE (IF TickerOrder[i] \in tickers THEN <<TickerOrder[i]>> ELSE <<>>)
         \o SortedFrom(tickers, i + 1)

\* list(all_tickers), line 258: a set of strings iterates in the order of
\* the string hashes, which are seeded per process; the lists it can give
\* are the permutations of the set
RECURSIVE IterationOrders(_)
IterationOrders(tickers) ==
    IF tickers = {} THEN {<<>>}
    ELSE UNION {{<<first>> \o rest : rest \in IterationOrders(tickers \ {first})} :
                first \in tickers}

\* the mutant of Sorted: the list left in the iteration order of the set
SortedNot(list) == list

\* sorted(list), line 258
Sorted(list) == SortedFrom(Range(list), 1)

\* the mutant of CollectTickers: the benchmark ticker left out
CollectTickersNoBench(bench, signals_config) ==
    {signals_config[i].a : i \in {j \in 1..Len(signals_config) :
                                      signals_config[j].a # NoKey}}
    \cup {signals_config[i].b : i \in {j \in 1..Len(signals_config) :
                                         signals_config[j].b # NoKey}}
    \cup {signals_config[i].ticker : i \in {j \in 1..Len(signals_config) :
                                              signals_config[j].ticker # NoKey}}

\* lines 197-204
CollectTickers(bench, signals_config) ==
    {bench}
    \cup {signals_config[i].a : i \in {j \in 1..Len(signals_config) :
                                         signals_config[j].a # NoKey}}
    \cup {signals_config[i].b : i \in {j \in 1..Len(signals_config) :
                                         signals_config[j].b # NoKey}}
    \cup {signals_config[i].ticker : i \in {j \in 1..Len(signals_config) :
                                              signals_config[j].ticker # NoKey}}

\* lines 159-171: copy and sort the table, read the configuration, validate
\* the market_state block when its version selects the config-driven rule
V2Begin ==
    /\ pc = "start"
    /\ ~config.none
    /\ df' = [columns |-> prices_wide.columns, rows |-> SortIndex(prices_wide.rows)]
    /\ out' = <<>>
    /\ signal_data' = <<>>
    /\ LET market_state_config == config.market_state
           v == validate_market_state_config(config)
       IN IF market_state_config.kind = "other"
          THEN /\ pc' = "error"
               /\ error' = [type |-> "AttributeError", field |-> "market_state",
                             what |-> "get"]
          ELSE IF market_state_config.version = "0.4" /\ v # Valid
          THEN pc' = "error" /\ error' = v
          ELSE pc' = "signals" /\ UNCHANGED error
    /\ UNCHANGED <<prices_wide, window, config, all_tickers, records, call, ret>>
    /\ UNCHANGED mainVars

\* lines 175-194, one signal definition: its value series and SMA series
V2ParseSignal ==
    /\ pc = "signals"
    /\ Len(signal_data) < Len(config.signals)
    /\ LET signal_def == config.signals[Len(signal_data) + 1]
           kind == signal_def.kind
           w == config.window
           needed == IF kind = "relative_strength"
                     THEN <<signal_def.a, signal_def.b>>
                     ELSE <<signal_def.ticker>>
           absent == SelectSeq(needed, LAMBDA c : c \notin df.columns)
           value_series == IF kind = "relative_strength"
                           THEN Ratio(df.rows, signal_def.a, signal_def.b)
                           ELSE Column(df.rows, signal_def.ticker)
       IN IF kind \notin {"relative_strength", "price_proxy"}
          THEN /\ pc' = "error"
               /\ error' = [type |-> "ValueError", field |-> "kind", what |-> kind]
               /\ UNCHANGED signal_data
          ELSE IF Len(absent) > 0
          THEN /\ pc' = "error"
               /\ error' = KeyError(absent[1])
               /\ UNCHANGED signal_data
          ELSE /\ signal_data' = Append(signal_data,
                       [name |-> signal_def.name,
                        value |-> value_series,
                        sma |-> RollingMean(value_series, w),
                        rule |-> signal_def.rule])
               /\ UNCHANGED <<pc, error>>
    /\ UNCHANGED <<prices_wide, window, config, df, all_tickers, out, records,
                   call, ret>>
    /\ UNCHANGED mainVars

\* lines 196-204
V2CollectTickers ==
    /\ pc = "signals"
    /\ Len(signal_data) = Len(config.signals)
    /\ all_tickers' = CollectTickers(Get(config.bench, "SPY"), config.signals)
    /\ pc' = "dates"
    /\ UNCHANGED <<prices_wide, window, config, df, signal_data, out, records,
                   error, call, ret>>
    /\ UNCHANGED mainVars

\* the mutant of SignalAt: the SMA of an NA signal left NaN, not nulled
SignalAtNaNSma(data, t) ==
    LET value == data.value[t]
        sma == data.sma[t]
        c == Classify(value, sma, data.rule)
    IN IF isna(sma)
       THEN [signal |-> "NA",
             metrics |-> [value |-> IF isna(value) THEN None ELSE value,
                          sma |-> sma]]
       ELSE IF "raise" \in DOMAIN c THEN c
       ELSE [signal |-> c.signal, metrics |-> [value |-> value, sma |-> sma]]

\* lines 214-237, one signal on one date: its classification and its metrics
SignalAt(data, t) ==
    LET value == data.value[t]
        sma == data.sma[t]
        c == Classify(value, sma, data.rule)
    IN IF isna(sma)
       THEN [signal |-> "NA",
             metrics |-> [value |-> IF isna(value) THEN None ELSE value,
                          sma |-> None]]
       ELSE IF "raise" \in DOMAIN c THEN c
       ELSE [signal |-> c.signal, metrics |-> [value |-> value, sma |-> sma]]

IndexOf(data, name) == CHOOSE i \in 1..Len(data) : data[i].name = name

\* lines 240-253: the state of a date's signals and the field that holds it
StateOf(signals, cfg) ==
    IF cfg.market_state.version = "0.4"
    THEN [field |-> Get(cfg.market_state.output.field, "state"),
          state |-> compute_market_state_v04(
                        [name \in DOMAIN signals |-> [signal |-> signals[name]]],
                        cfg)]
    ELSE [field |-> "state", state |-> compute_market_state(signals)]

\* lines 208-260: the record of the t-th date, or the exception raised;
\* tickers is what sorted(list(all_tickers)) gave
V2Row(t, tickers) ==
    LET date == df.rows[t].date
        results == [i \in 1..Len(signal_data) |-> SignalAt(signal_data[i], t)]
        failed == {i \in 1..Len(signal_data) : "raise" \in DOMAIN results[i]}
        names == {signal_data[i].name : i \in 1..Len(signal_data)}
        signals == [name \in names |-> results[IndexOf(signal_data, name)].signal]
        metrics == [name \in names |-> results[IndexOf(signal_data, name)].metrics]
        st == StateOf(signals, config)
        inputs == [price_field |-> Get(config.price_field, "adj_close"),
                   window |-> config.window,
                   tickers |-> tickers]
        row1 == Put(EmptyDict, "date", Strftime(date))
        row2 == Put(row1, "signals", signals)
        row3 == Put(row2, st.field, st.state)
        row4 == Put(row3, "metrics", metrics)
        row5 == Put(row4, "inputs", inputs)
        row6 == Put(row5, "version", Get(config.version, "0.2"))
    IN IF failed # {}
       THEN [raise |-> results[CHOOSE i \in failed : \A j \in failed : i <= j].raise]
       ELSE IF "raise" \in DOMAIN st.state THEN [raise |-> st.state.raise]
       ELSE [row |-> row6]

\* lines 207-262, one date of the loop; line 258 iterates the set in
\* whatever order this process gives and sorts the list
V2Record ==
    /\ pc = "dates"
    /\ Len(out) < Len(df.rows)
    /\ \E tickers \in {Sorted(listed) : listed \in IterationOrders(all_tickers)} :
          LET r == V2Row(Len(out) + 1, tickers)
          IN IF "raise" \in DOMAIN r
             THEN pc' = "error" /\ error' = r.raise /\ UNCHANGED out
             ELSE out' = Append(out, r.row) /\ UNCHANGED <<pc, error>>
    /\ UNCHANGED <<prices_wide, window, config, df, signal_data, all_tickers,
                   records, call, ret>>
    /\ UNCHANGED mainVars

\* line 264 and line 366: return out
Return ==
    /\ pc \in {"dates", "legacy_dates"}
    /\ Len(out) = Len(df.rows)
    /\ records' = out
    /\ pc' = "done"
    /\ UNCHANGED <<prices_wide, window, config, df, signal_data, all_tickers,
                   out, error, call, ret>>
    /\ UNCHANGED mainVars

-----------------------------------------------------------------------------
(* The legacy path: compute_signals with config=None. *)

LegacyColumns == <<"XLE", "SPY", "XLK", "XLU", "TLT">>

\* lines 300-312
LegacyBegin ==
    /\ pc = "start"
    /\ config.none
    /\ LET sorted == SortIndex(prices_wide.rows)
           absent == SelectSeq(LegacyColumns, LAMBDA c : c \notin prices_wide.columns)
           rs_energy == Ratio(sorted, "XLE", "SPY")
           rs_tech == Ratio(sorted, "XLK", "SPY")
           rs_util == Ratio(sorted, "XLU", "SPY")
           tlt == Column(sorted, "TLT")
       IN /\ df' = [columns |-> prices_wide.columns, rows |-> sorted]
          /\ IF Len(absent) > 0
             THEN /\ pc' = "error"
                  /\ error' = KeyError(absent[1])
                  /\ signal_data' = <<>>
             ELSE /\ pc' = "legacy_dates"
                  /\ signal_data' =
                       <<[name |-> "energy", value |-> rs_energy,
                          sma |-> RollingMean(rs_energy, window), rule |-> "gt_sma"],
                         [name |-> "rates", value |-> tlt,
                          sma |-> RollingMean(tlt, window), rule |-> "lt_sma"],
                         [name |-> "tech", value |-> rs_tech,
                          sma |-> RollingMean(rs_tech, window), rule |-> "gt_sma"],
                         [name |-> "utilities", value |-> rs_util,
                          sma |-> RollingMean(rs_util, window), rule |-> "gt_sma"]>>
                  /\ UNCHANGED error
    /\ out' = <<>>
    /\ UNCHANGED <<prices_wide, window, config, all_tickers, records, call, ret>>
    /\ UNCHANGED mainVars

\* the mutant of LegacySignal: rates classified like the relative strengths
LegacySignalAbove(data, t) ==
    IF isna(data.sma[t]) THEN "NA"
    ELSE IF Greater(data.value[t], data.sma[t]) THEN "UP" ELSE "DOWN"

\* lines 318-347: UP iff the ratio is above its SMA; rates UP iff TLT is below
LegacySignal(data, t) ==
    IF isna(data.sma[t]) THEN "NA"
    ELSE IF data.name = "rates"
         THEN (IF Less(data.value[t], data.sma[t]) THEN "UP" ELSE "DOWN")
         ELSE (IF Greater(data.value[t], data.sma[t]) THEN "UP" ELSE "DOWN")

\* lines 315-362: the record of the t-th date
LegacyRow(t) ==
    [date |-> Strftime(df.rows[t].date),
     signals |-> [name \in {"energy", "rates", "tech", "utilities"} |->
                      LegacySignal(signal_data[IndexOf(signal_data, name)], t)],
     inputs |-> [bench |-> "SPY",
                 tickers |-> <<"XLE", "TLT", "XLK", "XLU", "SPY">>,
                 window |-> window,
                 price_field |-> "adj_close"],
     version |-> "0.1"]

\* lines 314-364, one date of the loop
LegacyRecord ==
    /\ pc = "legacy_dates"
    /\ Len(out) < Len(df.rows)
    /\ out' = Append(out, LegacyRow(Len(out) + 1))
    /\ UNCHANGED <<prices_wide, window, config, pc, df, signal_data, all_tickers,
                   records, error, call, ret>>
    /\ UNCHANGED mainVars

-----------------------------------------------------------------------------
(* Inputs: price tables. *)

Tickers == {"XLE", "TLT", "XLK", "XLU", "SPY"}

BaseRow == [t \in Tickers |-> Num(1)]

\* rows in which one ticker moves off the base price, or has no price
RowSet ==
    {BaseRow}
    \cup {[BaseRow EXCEPT ![t] = Num(p)] : t \in Tickers, p \in 2..MaxPrice}
    \cup {[BaseRow EXCEPT ![t] = NaN] : t \in {"TLT", "SPY"}}

\* rows that move one of the three signals of the state rule
StateRowSet ==
    {BaseRow, [BaseRow EXCEPT !["TLT"] = NaN]}
    \cup {[BaseRow EXCEPT ![t] = Num(MaxPrice)] : t \in {"XLK", "XLU", "TLT"}}

\* rows in which only TLT moves
TltRowSet == {[BaseRow EXCEPT !["TLT"] = Num(p)] : p \in 1..MaxPrice}

Perms(n) == {f \in [1..n -> 1..n] : \A i, j \in 1..n : f[i] = f[j] => i = j}

\* a table of n rows of rowset, its dates 1..n in the order given by order
Table(columns, n, px, order) ==
    [columns |-> columns,
     rows |-> [i \in 1..n |-> [date |-> order[i], px |-> px[i]]]]

Ascending(n) == [i \in 1..n |-> i]

SortedTables(rowset) ==
    UNION {{Table(Tickers, n, px, Ascending(n)) : px \in [1..n -> rowset]} :
           n \in 0..MaxDates}

ShuffledTables(rowset) ==
    UNION {{Table(Tickers, n, px, order) :
                px \in [1..n -> rowset], order \in Perms(n)} :
           n \in 0..MaxDates}

Complete(table) ==
    \A i \in 1..Len(table.rows) : \A t \in table.columns :
        ~isna(table.rows[i].px[t])

-----------------------------------------------------------------------------
(* Inputs: configurations. *)

RS(name, a, b, rule) ==
    [name |-> name, kind |-> "relative_strength", rule |-> rule,
     a |-> a, b |-> b, ticker |-> NoKey]

PP(name, ticker, rule) ==
    [name |-> name, kind |-> "price_proxy", rule |-> rule,
     a |-> NoKey, b |-> NoKey, ticker |-> ticker]

\* the four signals of the legacy path, as signal definitions
StdSignals ==
    <<RS("energy", "XLE", "SPY", "gt_sma"), PP("rates", "TLT", "lt_sma"),
      RS("tech", "XLK", "SPY", "gt_sma"), RS("utilities", "XLU", "SPY", "gt_sma")>>

\* the same series under both rules
PairSignals ==
    <<PP("above", "TLT", "gt_sma"), PP("below", "TLT", "lt_sma"),
      RS("rs_above", "XLK", "SPY", "gt_sma"), RS("rs_below", "XLK", "SPY", "lt_sma")>>

\* signal lists that hold a definition the code cannot compute
BadSignals ==
    {<<PP("rates", "TLT", "lt_sma"), [PP("mom", "TLT", "gt_sma") EXCEPT !.kind = "momentum"]>>,
     <<[PP("mom", "TLT", "gt_sma") EXCEPT !.kind = "momentum"]>>,
     <<PP("rates", "TLT", "eq_sma")>>,
     <<PP("rates", "TLT", "lt_sma"), RS("tech", "XLK", "SPY", "ge_sma")>>,
     <<RS("growth", "QQQ", "SPY", "gt_sma")>>}

MarketState(version, enabled, output, required_signals, labels_order, labels) ==
    [kind |-> "dict", version |-> version, enabled |-> enabled, output |-> output,
     required_signals |-> required_signals, labels_order |-> labels_order,
     labels |-> labels]

Output(field, na_label) == [field |-> field, na_label |-> na_label]

\* no market_state key, and a market_state that is no mapping
NoMarketState ==
    [MarketState(NoKey, "absent", Output(NoKey, NoKey), Other, Other, Other)
        EXCEPT !.kind = "absent"]
BadMarketState ==
    [MarketState(NoKey, "absent", Output(NoKey, NoKey), Other, Other, Other)
        EXCEPT !.kind = "other"]

Config(w, signals, market_state) ==
    [none |-> FALSE, price_field |-> NoKey, window |-> w, bench |-> NoKey,
     signals |-> signals, version |-> NoKey, market_state |-> market_state]

\* the three-signal rule written as labels
RiskOn == AllLabel(<<Cond("tech", "UP"), Cond("utilities", "DOWN"), Cond("rates", "DOWN")>>)
RiskOff == AllLabel(<<Cond("tech", "DOWN"), Cond("utilities", "UP"), Cond("rates", "UP")>>)

StdRequired == List(<<"tech", "utilities", "rates">>)
StdOrder == List(<<"RISK_ON", "RISK_OFF", "MIXED">>)
StdLabels ==
    Labels(<<Entry("RISK_ON", RiskOn), Entry("RISK_OFF", RiskOff),
             Entry("MIXED", DefaultLabel)>>)

\* market_state blocks of the runs
RunMarketStates ==
    {NoMarketState, BadMarketState}
    \cup {MarketState(version, enabled, Output(NoKey, na_label),
                       StdRequired, StdOrder, StdLabels) :
              version \in {"0.4", NoKey}, enabled \in {"true", "false"},
              na_label \in {NoKey, "UNKNOWN"}}
    \cup {MarketState("0.4", enabled, Output(field, NoKey),
                       StdRequired, StdOrder, StdLabels) :
              enabled \in {"true", "false"},
              field \in {"market_state", "metrics", "signals"}}
    \cup {\* a configured output field without the version that reads it
          MarketState(version, "true", Output("regime", NoKey),
                      StdRequired, StdOrder, StdLabels) :
              version \in {NoKey, "0.3"}}
    \cup {\* two labels marked default
          MarketState("0.4", "true", Output(NoKey, NoKey), StdRequired,
                      List(<<"RISK_ON", "MIXED", "NEUTRAL">>),
                      Labels(<<Entry("RISK_ON", RiskOn), Entry("MIXED", DefaultLabel),
                               Entry("NEUTRAL", DefaultLabel)>>)),
          \* a required signal that no signal definition computes
          MarketState("0.4", "true", Output(NoKey, NoKey),
                      List(<<"rates", "volatility">>), StdOrder, StdLabels),
          \* a condition on a signal that is not required
          MarketState("0.4", "true", Output(NoKey, NoKey), List(<<"rates">>),
                      List(<<"ENERGY_UP", "RATES_DOWN">>),
                      Labels(<<Entry("ENERGY_UP", AllLabel(<<Cond("energy", "UP")>>)),
                               Entry("RATES_DOWN", AllLabel(<<Cond("rates", "DOWN")>>))>>)),
          \* malformed blocks, with and without the version that selects them
          MarketState("0.4", "true", Output(NoKey, NoKey), List(<<>>),
                      StdOrder, StdLabels),
          MarketState(NoKey, "true", Output(NoKey, NoKey), List(<<>>),
                      StdOrder, StdLabels),
          MarketState("0.4", "false", Output(NoKey, NoKey), StdRequired,
                      List(<<"RISK_ON", "MIXED">>),
                      Labels(<<Entry("RISK_ON", RiskOn)>>))}

Windows == 1..MaxWindow

Run(table, w, cfg) == [prices_wide |-> table, window |-> w, config |-> cfg]

\* the legacy path takes the window argument; the config-driven path is called
\* with the argument's default and reads the window of the configuration
LegacyRuns(tables) == {Run(t, w, NoConfig) : t \in tables, w \in Windows}

V2Runs(tables, windows, signal_lists, market_states) ==
    {Run(t, DefaultWindow, Config(w, sigs, ms)) :
        t \in tables, w \in windows, sigs \in signal_lists, ms \in market_states}

\* the constant series of the tests: 21 dates, 100 over 400, window 20
ScenarioTable ==
    Table({"A", "B"}, 21, [i \in 1..21 |-> [A |-> Num(100), B |-> Num(400)]],
          Ascending(21))
ScenarioConfig ==
    Config(DefaultWindow, <<RS("ratio", "A", "B", "gt_sma")>>, NoMarketState)

Runs ==
    {Run(ScenarioTable, DefaultWindow, ScenarioConfig)}
    \cup LegacyRuns(SortedTables(RowSet))
    \cup V2Runs(SortedTables(RowSet), Windows, {StdSignals, PairSignals},
                {NoMarketState})
    \cup V2Runs(SortedTables(StateRowSet), {MaxWindow - 1, MaxWindow}, {StdSignals},
                RunMarketStates)
    \cup V2Runs(SortedTables(TltRowSet), Windows \cup {DefaultWindow}, BadSignals,
                {NoMarketState})
    \cup LegacyRuns(ShuffledTables(TltRowSet))
    \cup V2Runs(ShuffledTables(TltRowSet), Windows, {StdSignals}, {NoMarketState})

NoCall == [fn |-> "none"]

\* the output file: absent, or its lines
NoFile == [exists |-> FALSE, lines |-> <<>>]
NoRun == [ran |-> FALSE]

\* a direct call of compute_signals: main is not running, no file is written
NotInMain ==
    /\ stage = "call"
    /\ file = NoFile
    /\ before = NoFile
    /\ previous = NoRun

Init ==
    /\ \E r \in Runs :
          /\ prices_wide = r.prices_wide
          /\ window = r.window
          /\ config = r.config
    /\ pc = "start"
    /\ df = [columns |-> {}, rows |-> <<>>]
    /\ signal_data = <<>>
    /\ all_tickers = {}
    /\ out = <<>>
    /\ records = NotReturned
    /\ error = NoError
    /\ call = NoCall
    /\ ret = NoCall
    /\ NotInMain

Next ==
    \/ V2Begin
    \/ V2ParseSignal
    \/ V2CollectTickers
    \/ V2Record
    \/ LegacyBegin
    \/ LegacyRecord
    \/ Return

Spec == Init /\ [][Next]_vars

-----------------------------------------------------------------------------
(* Two runs on the same price table, window and configuration. *)

\* the first run has ended; compute_signals is called again with the same
\* arguments, in a new frame: its locals are those of a first call.  The
\* second run may be in another process, so its set of tickers may iterate
\* in another order (V2Record draws the order where the set is iterated).
Again ==
    /\ pc \in {"done", "error"}
    /\ ~previous.ran
    /\ previous' = [ran |-> TRUE, outcome |-> pc, records |-> records,
                    error |-> error]
    /\ pc' = "start"
    /\ df' = [columns |-> {}, rows |-> <<>>]
    /\ signal_data' = <<>>
    /\ all_tickers' = {}
    /\ out' = <<>>
    /\ records' = NotReturned
    /\ error' = NoError
    /\ UNCHANGED <<prices_wide, window, config, call, ret, stage, file, before>>

NextTwice ==
    \/ Next
    \/ Again

SpecTwice == Init /\ [][NextTwice]_vars

-----------------------------------------------------------------------------
(* The full run: main reads the prices, loads the configuration, computes  *)
(* the records and writes the output file.  prices_wide is the table of    *)
(* the input CSV; config = NoConfig is a run with --legacy.                *)

\* line 385
RequiredTickers == <<"XLE", "TLT", "XLK", "XLU", "SPY">>

\* an output file left by an earlier run
OldFile == [exists |-> TRUE, lines |-> <<[json |-> [date |-> <<2024, 12, 31>>]]>>]

\* line 466: json.dumps(r) and a newline; the line holds the record's text
Dumps(r) == [json |-> r]

\* line 388: the column name <TICKER>_<price_field>; main reads with the
\* default price_field
Suffixed(t) == t \o "_" \o "adj_close"

\* line 453, read_wide_csv (lines 382-417): the suffixed columns when all five
\* are there, else the plain columns, or ValueError when a plain one is
\* missing; the table returned has the five tickers as its columns
MainRead ==
    /\ stage = "read"
    /\ LET all_suffixed ==
               \A i \in 1..Len(RequiredTickers) :
                   Suffixed(RequiredTickers[i]) \in prices_wide.columns
           missing_plain ==
               SelectSeq(RequiredTickers, LAMBDA t : t \notin prices_wide.columns)
           resolved_cols ==
               [t \in Range(RequiredTickers) |->
                   IF all_suffixed THEN Suffixed(t) ELSE t]
       IN IF ~all_suffixed /\ Len(missing_plain) > 0
          THEN /\ stage' = "failed"
               /\ error' = [type |-> "ValueError", field |-> "columns",
                             what |-> missing_plain]
               /\ UNCHANGED <<prices_wide, pc>>
          ELSE /\ prices_wide' =
                     [columns |-> Range(RequiredTickers),
                      rows |-> [i \in 1..Len(prices_wide.rows) |->
                                  [date |-> prices_wide.rows[i].date,
                                   px |-> [t \in Range(RequiredTickers) |->
                                              prices_wide.rows[i].px[resolved_cols[t]]]]]]
               /\ stage' = IF config.none THEN "compute" ELSE "load"
               /\ pc' = IF config.none THEN "start" ELSE pc
               /\ UNCHANGED error
    /\ UNCHANGED <<window, config, df, signal_data, all_tickers, out, records,
                   call, ret, file, before, previous>>

\* lines 458-460, load_signals_config (lines 8-20): the configuration file is
\* read, or open() fails
MainLoad ==
    /\ stage = "load"
    /\ \E readable \in BOOLEAN :
          IF readable
          THEN stage' = "compute" /\ pc' = "start" /\ UNCHANGED error
          ELSE /\ stage' = "failed"
               /\ error' = [type |-> "FileNotFoundError", field |-> "config",
                             what |-> "signals.yaml"]
               /\ UNCHANGED pc
    /\ UNCHANGED <<prices_wide, window, config, df, signal_data, all_tickers,
                   out, records, call, ret, file, before, previous>>

\* lines 455-460: the exception of the computation leaves main
MainAbort ==
    /\ stage = "compute"
    /\ pc = "error"
    /\ stage' = "failed"
    /\ UNCHANGED <<runVars, call, ret, file, before, previous>>

\* lines 462-464: the records are there; the file is created or truncated
MainOpen ==
    /\ stage = "compute"
    /\ pc = "done"
    /\ file' = [exists |-> TRUE, lines |-> <<>>]
    /\ stage' = "write"
    /\ UNCHANGED <<runVars, call, ret, before, previous>>

\* lines 465-466, one record
MainWrite ==
    /\ stage = "write"
    /\ Len(file.lines) < Len(records)
    /\ file' = [file EXCEPT !.lines = Append(@, Dumps(records[Len(file.lines) + 1]))]
    /\ UNCHANGED <<runVars, call, ret, stage, before, previous>>

\* line 468
MainExit ==
    /\ stage = "write"
    /\ Len(file.lines) = Len(records)
    /\ stage' = "exit"
    /\ UNCHANGED <<runVars, call, ret, file, before, previous>>

\* a CSV of n dates whose columns are the names in columns: a plain column
\* holds plain[i], a suffixed column holds suffixed[i], of its ticker
Csv(columns, n, plain, suffixed) ==
    [columns |-> columns,
     rows |-> [i \in 1..n |->
                 [date |-> i,
                  px |-> [c \in columns |->
                            IF c \in Tickers THEN plain[i][c]
                            ELSE suffixed[i][CHOOSE t \in Tickers : Suffixed(t) = c]]]]]

\* input files with suffixed columns: all five suffixed columns alone, with
\* the plain columns beside them, and only some of them with or without the
\* plain columns
CsvTables ==
    LET all == {Suffixed(t) : t \in Tickers}
        some == {Suffixed("TLT"), Suffixed("XLE")}
    IN UNION {{Csv(columns, n, plain, suffixed) :
                  columns \in {all, all \cup Tickers, some \cup Tickers, some},
                  plain \in [1..n -> {BaseRow}],
                  suffixed \in [1..n -> TltRowSet]} : n \in 0..(MaxDates - 1)}

CsvRuns ==
    LegacyRuns(CsvTables)
    \cup V2Runs(CsvTables, {MaxWindow - 1}, {StdSignals}, {NoMarketState})

InitMain ==
    /\ \E r \in Runs \cup CsvRuns :
          /\ prices_wide = r.prices_wide
          /\ window = r.window
          /\ config = r.config
    /\ pc = "main"
    /\ df = [columns |-> {}, rows |-> <<>>]
    /\ signal_data = <<>>
    /\ all_tickers = {}
    /\ out = <<>>
    /\ records = NotReturned
    /\ error = NoError
    /\ call = NoCall
    /\ ret = NoCall
    /\ stage = "read"
    /\ before \in {NoFile, OldFile}
    /\ file = before
    /\ previous = NoRun

NextMain ==
    \/ MainRead
    \/ MainLoad
    \/ Next
    \/ MainAbort
    \/ MainOpen
    \/ MainWrite
    \/ MainExit

SpecMain == InitMain /\ [][NextMain]_vars

-----------------------------------------------------------------------------
(* Direct calls of the pure functions: one call per behaviour. *)

Classes == {"UP", "DOWN", "NA"}

\* every mapping of some of names to classifications
SignalSets(names) == UNION {[present -> Classes] : present \in SUBSET names}

\* the argument compute_signals_v2 builds at lines 245-247
ForState(signals) == [name \in DOMAIN signals |-> [signal |-> signals[name]]]

Conds == {Cond(s, v) : s \in {"tech", "rates"}, v \in {"UP", "DOWN"}}

CondLists ==
    {<<c>> : c \in Conds}
    \cup {<<c1, c2>> : c1 \in {c \in Conds : c.signal = "tech"},
                       c2 \in {c \in Conds : c.signal = "rates"}}

\* label definitions the validator accepts
GoodLabelDefs ==
    {AllLabel(conds) : conds \in CondLists}
    \cup {DefaultLabel, LabelDef(TRUE, TRUE, List(<<Cond("tech", "UP")>>))}

\* label definitions the validator rejects
BadLabelDefs ==
    {NotALabelDef,
     LabelDef(FALSE, FALSE, Other),
     LabelDef(FALSE, TRUE, Other),
     LabelDef(TRUE, TRUE, Other),
     AllLabel(<<>>),
     LabelDef(TRUE, TRUE, List(<<>>)),
     AllLabel(<<NotACond>>),
     AllLabel(<<Cond("tech", "UP"), NotACond>>),
     AllLabel(<<Cond("tech", NoKey)>>),
     AllLabel(<<Cond(NoKey, "UP")>>),
     AllLabel(<<Cond("rates", "UP"), Cond(NoKey, NoKey)>>)}

\* mappings of the labels A and B, in either key order
LabelMaps(defs) ==
    {Labels(<<Entry("A", a), Entry("B", b)>>) : a \in defs, b \in defs}
    \cup {Labels(<<Entry("B", b), Entry("A", a)>>) : a \in defs, b \in defs}

GoodOrders == {List(o) : o \in {<<"A">>, <<"B">>, <<"A", "B">>, <<"B", "A">>}}
BadOrders == {Other, List(<<>>), List(<<NonStr>>), List(<<"A", NonStr>>),
              List(<<"A", "C">>)}

GoodRequired ==
    {List(r) : r \in {<<"rates">>, <<"tech">>, <<"tech", "rates">>, <<"rates", "tech">>}}
BadRequired == {Other, List(<<>>), List(<<NonStr>>), List(<<"tech", NonStr>>)}

\* valid configurations of the config-driven state rule
StateConfigs ==
    {Config(DefaultWindow, <<>>,
            MarketState("0.4", "true", Output(NoKey, NoKey), req, order, labels)) :
        req \in GoodRequired, order \in GoodOrders, labels \in LabelMaps(GoodLabelDefs)}
    \cup {Config(DefaultWindow, <<>>,
                  MarketState("0.4", enabled, Output(NoKey, na_label), req,
                              StdOrder, StdLabels)) :
              enabled \in {"true", "false", "absent"}, na_label \in {NoKey, "UNKNOWN"},
              req \in GoodRequired \cup {StdRequired}}

\* configurations for the validator: one part malformed, or none
ValidatorConfigs ==
    {Config(DefaultWindow, <<>>, ms) : ms \in {NoMarketState, BadMarketState}}
    \cup {Config(DefaultWindow, <<>>,
                  MarketState("0.4", "true", Output(NoKey, NoKey), req, order, labels)) :
              req \in BadRequired \cup {List(<<"rates">>)},
              order \in BadOrders \cup {List(<<"A", "B">>), List(<<"B">>)},
              labels \in {Other} \cup LabelMaps(BadLabelDefs \cup
                              {DefaultLabel, AllLabel(<<Cond("rates", "UP")>>),
                               LabelDef(TRUE, TRUE, List(<<Cond("tech", "UP")>>))})}

FnValues == {NaN, Num(1), Num(2), Frac(3, 2)}
FnSeries == {<<>>} \cup {<<v>> : v \in FnValues} \cup {<<u, v>> : u, v \in FnValues}

CallComputeSignal ==
    /\ call = NoCall
    /\ \E value_series \in FnSeries, sma_series \in FnSeries,
          rule \in {"gt_sma", "lt_sma", "eq_sma"} :
          /\ call' = [fn |-> "compute_signal", value_series |-> value_series,
                      sma_series |-> sma_series, rule |-> rule]
          /\ ret' = compute_signal(value_series, sma_series, rule)
    /\ UNCHANGED runVars
    /\ UNCHANGED mainVars

CallMarketState ==
    /\ call = NoCall
    /\ \E signals \in SignalSets({"tech", "utilities", "rates"}) :
          /\ call' = [fn |-> "compute_market_state", signals |-> signals]
          /\ ret' = compute_market_state(signals)
    /\ UNCHANGED runVars
    /\ UNCHANGED mainVars

CallMarketStateV04 ==
    /\ call = NoCall
    /\ \E signals \in SignalSets({"tech", "rates"}), cfg \in StateConfigs :
          /\ call' = [fn |-> "compute_market_state_v04", signals |-> signals,
                      config |-> cfg]
          /\ ret' = compute_market_state_v04(ForState(signals), cfg)
    /\ UNCHANGED runVars
    /\ UNCHANGED mainVars

CallValidate ==
    /\ call = NoCall
    /\ \E cfg \in ValidatorConfigs \cup StateConfigs :
          /\ call' = [fn |-> "validate_market_state_config", config |-> cfg]
          /\ ret' = validate_market_state_config(cfg)
    /\ UNCHANGED runVars
    /\ UNCHANGED mainVars

InitFn ==
    /\ prices_wide = Table(Tickers, 0, <<>>, <<>>)
    /\ window = DefaultWindow
    /\ config = NoConfig
    /\ pc = "idle"
    /\ df = [columns |-> {}, rows |-> <<>>]
    /\ signal_data = <<>>
    /\ all_tickers = {}
    /\ out = <<>>
    /\ records = NotReturned
    /\ error = NoError
    /\ call = NoCall
    /\ ret = NoCall
    /\ NotInMain

NextFn ==
    \/ CallComputeSignal
    \/ CallMarketState
    \/ CallMarketStateV04
    \/ CallValidate

SpecFn == InitFn /\ [][NextFn]_vars

-----------------------------------------------------------------------------
(* Claims. *)

\* the lookback window of the run: the argument on the legacy path, the
\* configuration's window on the config-driven path
RunWindow == IF config.none THEN window ELSE config.window

\* the name under which the run writes a record's state; none on the legacy path
StateField ==
    IF config.none THEN NoKey
    ELSE IF config.market_state.version = "0.4"
         THEN Get(config.market_state.output.field, "state")
         ELSE "state"

\* the signal mapping of a record; empty when the state, configured to be
\* written under the name signals, has replaced it
SignalsOf(row) == IF StateField = "signals" THEN EmptyDict ELSE row.signals

\* C1: with complete prices and window W >= 1, every signal of the records
\* of the first W-1 dates is NA, and every signal of every record from the
\* W-th date on is UP or DOWN, on the legacy and on the config-driven path.
C1_WindowWarmup ==
    (Complete(prices_wide) /\ RunWindow >= 1) =>
        \A t \in 1..Len(out) : \A name \in DOMAIN SignalsOf(out[t]) :
            /\ t < RunWindow => SignalsOf(out[t])[name] = "NA"
            /\ t >= RunWindow => SignalsOf(out[t])[name] \in {"UP", "DOWN"}

\* a returned run over complete prices whose window is 2 or more, with an
\* NA record before the window fills and an UP signal after
C1_Witness ==
    /\ pc = "done"
    /\ Complete(prices_wide)
    /\ RunWindow >= 2
    /\ Len(records) > RunWindow
    /\ \A name \in DOMAIN records[1].signals : records[1].signals[name] = "NA"
    /\ \E name \in DOMAIN records[Len(records)].signals :
           records[Len(records)].signals[name] = "UP"

\* value > SMA and value < SMA, by cross-multiplication
Above(v, s) == v.n * s.d > s.n * v.d
Below(v, s) == v.n * s.d < s.n * v.d

Opposite(c) == IF c = "UP" THEN "DOWN" ELSE "UP"

\* C2: on every date whose SMA is defined, gt_sma gives UP iff value > SMA
\* and lt_sma gives UP iff value < SMA, DOWN otherwise; so value = SMA is
\* DOWN under both rules, the two rules give opposite classifications of the
\* same value and SMA when they differ, and the constant series (100 over
\* 400, window 20) is NA on its first 19 dates and DOWN on the 20th.
C2_RuleClassification ==
    /\ \A t \in 1..Len(out) : \A i \in 1..Len(signal_data) :
         LET v == signal_data[i].value[t]
             s == signal_data[i].sma[t]
             c == SignalsOf(out[t])[signal_data[i].name]
         IN (s # NaN /\ StateField # "signals") =>
               /\ signal_data[i].rule = "gt_sma" => (c = "UP" <=> Above(v, s))
               /\ signal_data[i].rule = "lt_sma" => (c = "UP" <=> Below(v, s))
               /\ c \in {"UP", "DOWN"}
               /\ v = s => c = "DOWN"
               /\ \A j \in 1..Len(signal_data) :
                     (/\ signal_data[j].value[t] = v
                      /\ signal_data[j].sma[t] = s
                      /\ signal_data[j].rule # signal_data[i].rule
                      /\ v # s)
                     => SignalsOf(out[t])[signal_data[j].name] = Opposite(c)
    /\ (prices_wide = ScenarioTable /\ config = ScenarioConfig) =>
         \A t \in 1..Len(out) :
             /\ t <= 19 => out[t].signals["ratio"] = "NA"
             /\ t = 20 => out[t].signals["ratio"] = "DOWN"

\* a run of the same series under both rules: a tie on one date (both DOWN)
\* and, on a later date, a value above its SMA (UP under gt_sma, DOWN under
\* lt_sma)
C2_Witness ==
    /\ pc = "done"
    /\ ~config.none
    /\ config.signals = PairSignals
    /\ \E t \in 1..Len(records) :
          /\ records[t].metrics["above"].sma # None
          /\ records[t].metrics["above"].value = records[t].metrics["above"].sma
          /\ records[t].signals["above"] = "DOWN"
          /\ records[t].signals["below"] = "DOWN"
    /\ \E t \in 1..Len(records) :
          /\ records[t].signals["above"] = "UP"
          /\ records[t].signals["below"] = "DOWN"

\* C3: for every assignment of tech, utilities and rates over UP, DOWN, NA
\* the fixed rule gives NA if any of the three is NA, else RISK_ON iff
\* (UP, DOWN, DOWN), RISK_OFF iff (DOWN, UP, UP), MIXED otherwise; the rule
\* tag is always v0.3_basic.
C3_FixedRule ==
    call.fn = "compute_market_state" =>
        /\ ret.rule = "v0.3_basic"
        /\ DOMAIN call.signals = {"tech", "utilities", "rates"} =>
             LET tech == call.signals["tech"]
                 utilities == call.signals["utilities"]
                 rates == call.signals["rates"]
                 anyNA == "NA" \in {tech, utilities, rates}
                 on == tech = "UP" /\ utilities = "DOWN" /\ rates = "DOWN"
                 off == tech = "DOWN" /\ utilities = "UP" /\ rates = "UP"
             IN /\ ret.label = "NA" <=> anyNA
                /\ ret.label = "RISK_ON" <=> (~anyNA /\ on)
                /\ ret.label = "RISK_OFF" <=> (~anyNA /\ off)
                /\ ret.label = "MIXED" <=> (~anyNA /\ ~on /\ ~off)

\* one signal of the RISK_ON combination flipped alone: MIXED
C3_Witness ==
    /\ call.fn = "compute_market_state"
    /\ DOMAIN call.signals = {"tech", "utilities", "rates"}
    /\ call.signals["tech"] = "UP"
    /\ call.signals["utilities"] = "UP"
    /\ call.signals["rates"] = "DOWN"
    /\ ret.label = "MIXED"

\* is the classifier called with a configuration it accepts, enabled, with
\* every required signal classified UP or DOWN
Classifying ==
    /\ call.fn = "compute_market_state_v04"
    /\ "raise" \notin DOMAIN ret
    /\ call.config.market_state.enabled # "false"
    /\ \A name \in Range(call.config.market_state.required_signals.items) :
          name \in DOMAIN call.signals /\ call.signals[name] \in {"UP", "DOWN"}

\* the condition list of a label: empty for a label that has none
ConditionsOf(cfg, label) ==
    LET def == LabelsGet(cfg.market_state.labels, label)
    IN IF def.has_all THEN def.all.items ELSE <<>>

\* every {signal, is} pair of the label's list equals the classification the
\* signal set holds for that signal
SatisfiedBy(cfg, label, signals) ==
    /\ ConditionsOf(cfg, label) # <<>>
    /\ \A c \in Range(ConditionsOf(cfg, label)) :
          c.signal \in DOMAIN signals /\ signals[c.signal] = c.is

\* the positions of labels_order whose labels the signal set satisfies
SatisfiedAt(cfg, signals) ==
    {i \in 1..Len(cfg.market_state.labels_order.items) :
        SatisfiedBy(cfg, cfg.market_state.labels_order.items[i], signals)}

\* C4 (as claimed): when two or more labels of labels_order have condition
\* lists that the signal set satisfies, the label emitted is the earliest of
\* them in labels_order.
C4_FirstMatchWins ==
    LET order == call.config.market_state.labels_order.items
        sat == SatisfiedAt(call.config, call.signals)
        names == {order[i] : i \in sat}
    IN (Classifying /\ Cardinality(names) >= 2) =>
           ret.label = order[CHOOSE i \in sat : \A j \in sat : i <= j]

\* C6: with market_state enabled, on a date where a required signal is absent
\* from the signal set or classified NA, the label is the configured na_label
\* and the state carries a missing list of exactly the offending required
\* names, in required_signals order, with no error raised; when no required
\* signal is absent or NA the state has no missing list.
C6_MissingRequired ==
    (call.fn = "compute_market_state_v04"
        /\ call.config.market_state.enabled # "false") =>
       LET market_state == call.config.market_state
           offending == SelectSeq(market_state.required_signals.items,
                            LAMBDA name : \/ name \notin DOMAIN call.signals
                                          \/ call.signals[name] = "NA")
       IN /\ "raise" \notin DOMAIN ret
          /\ offending # <<>> =>
                /\ ret.label = Get(market_state.output.na_label, "NA")
                /\ "missing" \in DOMAIN ret
                /\ ret.missing = offending
          /\ offending = <<>> => "missing" \notin DOMAIN ret

\* two required signals, the first NA and the second absent, under a
\* configured na_label
C6_Witness ==
    /\ call.fn = "compute_market_state_v04"
    /\ call.config.market_state.enabled = "true"
    /\ call.config.market_state.required_signals.items = <<"tech", "rates">>
    /\ call.config.market_state.output.na_label = "UNKNOWN"
    /\ "tech" \in DOMAIN call.signals
    /\ call.signals["tech"] = "NA"
    /\ "rates" \notin DOMAIN call.signals
    /\ ret.label = "UNKNOWN"
    /\ ret.missing = <<"tech", "rates">>

\* C5 (as claimed): with market_state.enabled false, every record of the
\* config-driven run has the configured na_label as its state label, with
\* rule tag disabled.  (Read of the records that hold a state object under
\* the run's state field.)
C5_DisabledGivesNaLabel ==
    (~config.none /\ config.market_state.kind = "dict"
        /\ config.market_state.enabled = "false") =>
       \A t \in 1..Len(out) :
           (StateField \in DOMAIN out[t] /\ "label" \in DOMAIN out[t][StateField]) =>
               /\ out[t][StateField].label =
                      Get(config.market_state.output.na_label, "NA")
               /\ out[t][StateField].rule = "disabled"

\* C5 (amended): with market_state.version "0.4" and market_state.enabled
\* false, every record of the config-driven run has the configured na_label
\* as its state label, with rule tag disabled, under the configured output
\* field (unless that field is named metrics, inputs or version, which the
\* record's own entries overwrite).
C5_DisabledUnderV04 ==
    (~config.none /\ config.market_state.kind = "dict"
        /\ config.market_state.version = "0.4"
        /\ config.market_state.enabled = "false"
        /\ StateField \notin {"metrics", "inputs", "version"}) =>
       \A t \in 1..Len(out) :
           /\ StateField \in DOMAIN out[t]
           /\ out[t][StateField] =
                  [label |-> Get(config.market_state.output.na_label, "NA"),
                   rule |-> "disabled"]

\* a returned run, disabled under version 0.4 with na_label UNKNOWN, whose
\* first record has NA signals and whose last has an UP signal
C5_Witness ==
    /\ pc = "done"
    /\ ~config.none
    /\ config.market_state.version = "0.4"
    /\ config.market_state.enabled = "false"
    /\ config.market_state.output.na_label = "UNKNOWN"
    /\ Len(records) >= 2
    /\ records[1].signals["tech"] = "NA"
    /\ records[Len(records)].signals["tech"] = "UP"
    /\ records[1].state.label = "UNKNOWN"
    /\ records[Len(records)].state.label = "UNKNOWN"

\* the shapes the validator asks for
StrList(x) ==
    x.kind = "list" /\ Len(x.items) > 0 /\ \A i \in 1..Len(x.items) : x.items[i] # NonStr

CondList(def) ==
    /\ def.has_all
    /\ def.all.kind = "list"
    /\ Len(def.all.items) > 0
    /\ \A i \in 1..Len(def.all.items) :
          /\ def.all.items[i].kind = "dict"
          /\ def.all.items[i].signal # NoKey
          /\ def.all.items[i].is # NoKey

\* a label defined as a default marker or as a non-empty condition list
LabelAsClaimed(def) == def.kind = "dict" /\ (def.default \/ CondList(def))

\* a label defined as a default marker without an all key, or whose all key
\* holds a non-empty condition list
LabelAsAmended(def) ==
    def.kind = "dict" /\ ((def.default /\ ~def.has_all) \/ CondList(def))

\* accepted iff every part has its shape; otherwise the error names the first
\* part, in the order market_state, required_signals, labels_order, labels,
\* the labels of labels_order, that has not
ValidatorContract(LabelOk(_)) ==
    call.fn = "validate_market_state_config" =>
        LET ms == call.config.market_state
            order == ms.labels_order.items
            bad == {i \in 1..Len(order) : ~LabelOk(LabelsGet(ms.labels, order[i]))}
        IN IF ms.kind # "dict" THEN ret.field = "market_state"
           ELSE IF ~StrList(ms.required_signals)
           THEN ret.field \in {"required_signals must be a non-empty list",
                               "required_signals must contain only strings"}
           ELSE IF ~StrList(ms.labels_order)
           THEN ret.field \in {"labels_order must be a non-empty list",
                               "labels_order must contain only strings"}
           ELSE IF ms.labels.kind # "dict" THEN ret.field = "labels must be a dict"
           ELSE IF bad # {}
           THEN /\ ret.type = "ValueError"
                /\ ret.what = order[CHOOSE i \in bad : \A j \in bad : i <= j]
           ELSE ret = Valid

\* C7 (as claimed): the validator accepts iff market_state is a mapping,
\* required_signals and labels_order are non-empty lists of strings, labels
\* is a mapping and every label of labels_order is a default marker or a
\* non-empty list of conditions with signal and is; otherwise the error
\* names the first offending field in checking order.
C7_ValidatorAsClaimed == ValidatorContract(LabelAsClaimed)

\* C7 (amended): as claimed, except that a label passes as a default marker
\* only when it has no all key: a label with an all key, marked default or
\* not, needs a non-empty list of conditions with signal and is.
C7_Validator == ValidatorContract(LabelAsAmended)

\* the first label a bare default marker, the second marked default with an
\* empty all list: rejected, the error naming the second
C7_Witness ==
    /\ call.fn = "validate_market_state_config"
    /\ call.config.market_state.kind = "dict"
    /\ call.config.market_state.labels_order = List(<<"A", "B">>)
    /\ call.config.market_state.labels.kind = "dict"
    /\ LabelsGet(call.config.market_state.labels, "A") = DefaultLabel
    /\ LabelsGet(call.config.market_state.labels, "B") = LabelDef(TRUE, TRUE, List(<<>>))
    /\ ret.type = "ValueError"
    /\ ret.what = "B"

\* the labels of the configuration that are marked default
DefaultLabels(cfg) ==
    IF cfg.market_state.kind = "dict" /\ cfg.market_state.labels.kind = "dict"
    THEN {i \in 1..Len(cfg.market_state.labels.items) :
             /\ cfg.market_state.labels.items[i].def.kind = "dict"
             /\ cfg.market_state.labels.items[i].def.default}
    ELSE {}

\* C8 (as claimed): a configuration with more than one label marked default
\* is rejected during validation, before computation starts: no record is
\* ever produced from it.
C8_TwoDefaultsRejected ==
    (~config.none /\ Cardinality(DefaultLabels(config)) >= 2) => out = <<>>

KnownKinds == {"relative_strength", "price_proxy"}
KnownRules == {"gt_sma", "lt_sma"}

\* C9 (as claimed): a signal definition with an unknown kind or an unknown
\* rule is a fatal error for every price table, short or empty tables
\* included: the run never returns records.
C9_UnknownKindOrRuleFatal ==
    (~config.none /\ \E i \in 1..Len(config.signals) :
                        \/ config.signals[i].kind \notin KnownKinds
                        \/ config.signals[i].rule \notin KnownRules) =>
        /\ pc # "done"
        /\ records = NotReturned

\* the names of the configured signals
SignalNames(cfg) == {cfg.signals[i].name : i \in 1..Len(cfg.signals)}

\* market_state.output.field as the configuration gives it, state when it
\* gives none
ConfiguredField == Get(config.market_state.output.field, "state")

\* C10 (as claimed): every record of every run, legacy or config-driven,
\* includes the date, the signal mapping, a state object {label, rule} under
\* the configured field name (default state), a metrics mapping with a
\* value/SMA pair for every signal, an inputs block with window, price field
\* and tickers, and a version tag.
C10_RecordSchemaEveryRun ==
    \A t \in 1..Len(out) :
        LET field == IF config.none THEN "state" ELSE ConfiguredField
        IN /\ {"date", "signals", field, "metrics", "inputs", "version"}
                  \subseteq DOMAIN out[t]
           /\ {"label", "rule"} \subseteq DOMAIN out[t][field]
           /\ DOMAIN out[t].metrics = DOMAIN out[t].signals
           /\ {"window", "price_field", "tickers"} \subseteq DOMAIN out[t].inputs

\* C10 (amended): every record of the config-driven path includes the date,
\* the mapping of every signal name to its classification, a metrics mapping
\* with a value/SMA pair for every signal (SMA null exactly when the signal is
\* NA), an inputs block with window, price field and tickers, a version tag,
\* and the state object {label, rule}.  The state object is under the
\* configured field name (default state) only when market_state.version is
\* "0.4": then a field named date or signals holds the state object in place
\* of that entry, and a field named metrics, inputs or version is overwritten
\* by that entry.  With any other version the state object is under state,
\* tagged v0.3_basic, and the record has no entry under the configured name.
\* Every record of the legacy path holds exactly date, signals, inputs
\* (bench, tickers, window, price_field) and version 0.1: no state object
\* and no metrics.
C10_RecordSchema ==
    \A t \in 1..Len(out) :
        IF config.none
        THEN /\ DOMAIN out[t] = {"date", "signals", "inputs", "version"}
             /\ out[t].date = Strftime(df.rows[t].date)
             /\ DOMAIN out[t].signals = {"energy", "rates", "tech", "utilities"}
             /\ DOMAIN out[t].inputs = {"bench", "tickers", "window", "price_field"}
             /\ out[t].inputs.window = window
             /\ out[t].version = "0.1"
        ELSE LET field == IF config.market_state.version = "0.4"
                          THEN ConfiguredField ELSE "state"
             IN
             /\ DOMAIN out[t] =
                    {"date", "signals", "metrics", "inputs", "version", field}
             /\ field \notin {"metrics", "inputs", "version"} =>
                    {"label", "rule"} \subseteq DOMAIN out[t][field]
             /\ config.market_state.version # "0.4" =>
                    /\ out[t].state.rule = "v0.3_basic"
                    /\ ConfiguredField \notin {"state", "date", "signals", "metrics",
                                                "inputs", "version"}
                           => ConfiguredField \notin DOMAIN out[t]
             /\ field # "date" => out[t].date = Strftime(df.rows[t].date)
             /\ field # "signals" =>
                    /\ DOMAIN out[t].signals = SignalNames(config)
                    /\ \A name \in SignalNames(config) :
                          /\ out[t].signals[name] \in Classes
                          /\ out[t].metrics[name].sma = None
                                 <=> out[t].signals[name] = "NA"
             /\ DOMAIN out[t].metrics = SignalNames(config)
             /\ \A name \in SignalNames(config) :
                    DOMAIN out[t].metrics[name] = {"value", "sma"}
             /\ DOMAIN out[t].inputs = {"price_field", "window", "tickers"}
             /\ out[t].inputs.window = config.window
             /\ out[t].version = Get(config.version, "0.2")

\* a returned config-driven run whose configuration names the output field
\* regime without version 0.4: the state object is under state and no entry
\* is under regime; an NA signal with a null SMA in the first record and a
\* classified signal with a numeric SMA in the last
C10_Witness ==
    /\ pc = "done"
    /\ ~config.none
    /\ config.market_state.version # "0.4"
    /\ ConfiguredField = "regime"
    /\ Len(records) >= 2
    /\ records[1].signals["rates"] = "NA"
    /\ records[1].metrics["rates"].sma = None
    /\ records[Len(records)].signals["rates"] = "UP"
    /\ records[Len(records)].metrics["rates"].sma # None
    /\ "regime" \notin DOMAIN records[Len(records)]
    /\ records[Len(records)].state.label = "MIXED"

\* a returned config-driven run under version 0.4 with the state object under
\* the configured field name
C10_ConfiguredFieldReached ==
    /\ pc = "done"
    /\ ~config.none
    /\ config.market_state.version = "0.4"
    /\ ConfiguredField = "market_state"
    /\ Len(records) >= 2
    /\ "state" \notin DOMAIN records[Len(records)]
    /\ records[Len(records)].market_state.label = "MIXED"


\* lines 179-189 and 214-230: the classification the config-driven path gives
\* signal_def on the t-th date of rows under window w
ConfigDriven(rows, signal_def, w, t) ==
    LET value_series == IF signal_def.kind = "relative_strength"
                        THEN Ratio(rows, signal_def.a, signal_def.b)
                        ELSE Column(rows, signal_def.ticker)
    IN SignalAt([name |-> signal_def.name, value |-> value_series,
                 sma |-> RollingMean(value_series, w), rule |-> signal_def.rule],
                t).signal

\* the series of the legacy signals: TLT, and the ratios to SPY
LegacySeries(rows, name) ==
    IF name = "rates" THEN Column(rows, "TLT")
    ELSE Ratio(rows, IF name = "energy" THEN "XLE"
                     ELSE IF name = "tech" THEN "XLK" ELSE "XLU", "SPY")

\* C11: on the legacy path, on every date with a defined SMA, rates is UP iff
\* the TLT price is strictly below its window-SMA (else DOWN), and energy,
\* tech, utilities are UP iff XLE/SPY, XLK/SPY, XLU/SPY is strictly above its
\* own window-SMA (else DOWN); on every date the four signals equal the
\* config-driven classification of rates as a price proxy under lt_sma and
\* of the other three as relative strength versus SPY under gt_sma.
C11_LegacyEqualsConfigDriven ==
    config.none =>
        \A t \in 1..Len(out) :
            /\ \A name \in {"energy", "rates", "tech", "utilities"} :
                  LET v == LegacySeries(df.rows, name)
                      s == RollingMean(v, window)
                      c == out[t].signals[name]
                  IN /\ isna(s[t]) => c = "NA"
                     /\ ~isna(s[t]) =>
                           /\ c \in {"UP", "DOWN"}
                           /\ c = "UP" <=> IF name = "rates" THEN Below(v[t], s[t])
                                            ELSE Above(v[t], s[t])
            /\ \A i \in 1..Len(StdSignals) :
                  out[t].signals[StdSignals[i].name]
                      = ConfigDriven(df.rows, StdSignals[i], window, t)

\* a returned legacy run in which rates is UP on a date where TLT fell below
\* its SMA, rates is DOWN on a date where TLT rose above it, and energy is
\* UP on some date
C11_Witness ==
    /\ pc = "done"
    /\ config.none
    /\ \E t \in 1..Len(records) :
          /\ records[t].signals["rates"] = "UP"
          /\ Below(Column(df.rows, "TLT")[t], RollingMean(Column(df.rows, "TLT"), window)[t])
    /\ \E t \in 1..Len(records) :
          /\ records[t].signals["rates"] = "DOWN"
          /\ Above(Column(df.rows, "TLT")[t], RollingMean(Column(df.rows, "TLT"), window)[t])
    /\ \E t \in 1..Len(records) : records[t].signals["energy"] = "UP"

\* C12: two runs on identical price data and identical configuration end
\* alike: both return or both fail with the same exception, the second run
\* returns as many records as the first, and at every position the two
\* records are equal (date, signals, state, metrics, inputs and version);
\* while the second run is building its records each one equals the first
\* run's record at that position.  The two runs may differ in the one input
\* that the arguments do not fix, the order in which the set of tickers
\* iterates: the list that reaches a record is the same under every such
\* order.  The clock and module-level state are not read.
C12_Deterministic ==
    /\ (~config.none /\ pc = "dates") =>
          Cardinality({Sorted(listed) : listed \in IterationOrders(all_tickers)}) = 1
    /\ previous.ran =>
          /\ pc \in {"done", "error"} => pc = previous.outcome
          /\ pc = "error" => error = previous.error
          /\ pc = "done" =>
                /\ Len(records) = Len(previous.records)
                /\ \A t \in 1..Len(records) : records[t] = previous.records[t]
          /\ previous.outcome = "done" =>
                /\ Len(out) <= Len(previous.records)
                /\ \A t \in 1..Len(out) : out[t] = previous.records[t]

\* a second config-driven run that has returned two or more records, with a
\* state, after a first run that returned, over a set of five tickers, which
\* can iterate in 120 orders
C12_Witness ==
    /\ previous.ran
    /\ previous.outcome = "done"
    /\ pc = "done"
    /\ ~config.none
    /\ Len(records) >= 2
    /\ "state" \in DOMAIN records[2]
    /\ Cardinality(all_tickers) = 5
    /\ Cardinality(IterationOrders(all_tickers)) = 120
    /\ records[2].inputs.tickers = previous.records[2].inputs.tickers

\* the run's input holds one of the fatal conditions: a required ticker
\* column is missing, the market_state block is malformed under the
\* config-driven state rule, or a signal definition has an unknown kind or rule
FatalInput ==
    \/ /\ \E i \in 1..Len(RequiredTickers) :
             Suffixed(RequiredTickers[i]) \notin prices_wide.columns
       /\ \E i \in 1..Len(RequiredTickers) :
             RequiredTickers[i] \notin prices_wide.columns
    \/ /\ ~config.none
       /\ \/ config.market_state.kind = "other"
          \/ /\ config.market_state.version = "0.4"
             /\ validate_market_state_config(config) # Valid
          \/ \E i \in 1..Len(config.signals) :
                \/ config.signals[i].kind \notin KnownKinds
                \/ config.signals[i].rule \notin KnownRules

\* C13 (as claimed): in a full run every fatal failure (a missing required
\* ticker column, a malformed market_state block under the config-driven
\* state rule, an unknown signal kind or rule) aborts the run before any
\* record is written: the output file is as it was before the run unless the
\* complete record list was computed, and it is as it was in every run whose
\* input holds a fatal condition.
C13_NoOutputOnFatalFailure ==
    /\ stage = "failed" => file = before
    /\ file # before => pc = "done" /\ Len(records) = Len(df.rows)
    /\ FatalInput => file = before

\* the labels of labels_order whose condition lists the signal set satisfies
SatisfiedLabels(cfg, signals) ==
    {cfg.market_state.labels_order.items[i] : i \in SatisfiedAt(cfg, signals)}

\* C14 (as claimed): a label of labels_order matches iff every {signal, is}
\* pair of its condition list equals the classification of the named signal
\* in the signal set, whether or not that signal is listed in
\* required_signals: when the signal set satisfies the conditions of some
\* label of labels_order, the emitted label is one of the satisfied labels
\* (with required_signals = [rates], rates = UP and tech = UP, a label whose
\* conditions are [{signal: tech, is: UP}] is emitted).
C14_MatchOnAnySignal ==
    (Classifying /\ SatisfiedLabels(call.config, call.signals) # {}) =>
        ret.label \in SatisfiedLabels(call.config, call.signals)

\* the names of the labels marked default
DefaultNames(cfg) ==
    {cfg.market_state.labels.items[i].name : i \in DefaultLabels(cfg)}

\* C15 (as claimed): when all required signals are UP or DOWN and no label of
\* labels_order has a satisfied condition list, the emitted label is the
\* single label marked default if there is one, and MIXED if no label is
\* marked default; the emitted label is always a label of labels_order or
\* MIXED; and while some label's conditions are satisfied the label emitted
\* is a satisfied one, never one that is only the default.
C15_DefaultFallback ==
    Classifying =>
        LET sat == SatisfiedLabels(call.config, call.signals)
            defaults == DefaultNames(call.config)
        IN /\ (sat = {} /\ defaults = {}) => ret.label = "MIXED"
           /\ (sat = {} /\ Cardinality(defaults) = 1) => ret.label \in defaults
           /\ ret.label \in Range(call.config.market_state.labels_order.items)
                               \cup {"MIXED"}
           /\ sat # {} => ret.label \in sat

\* the sum of a ticker's prices over the rows at the positions in S
RECURSIVE PriceSum(_, _, _)
PriceSum(rows, ticker, S) ==
    IF S = {} THEN Num(0)
    ELSE LET i == CHOOSE k \in S : TRUE
         IN Add(PriceSum(rows, ticker, S \ {i}), rows[i].px[ticker])

\* the mean of the ticker's prices over the w latest dates up to date d,
\* whatever the order of the rows; NaN when there are fewer than w such dates
\* or one of the prices is missing
MeanOverDates(rows, ticker, d, w) ==
    LET upto == {i \in 1..Len(rows) : rows[i].date <= d}
        latest == {i \in upto :
                      Cardinality({j \in upto : rows[j].date > rows[i].date}) < w}
    IN IF Cardinality(upto) < w \/ \E i \in latest : isna(rows[i].px[ticker])
       THEN NaN
       ELSE Div(PriceSum(rows, ticker, latest), Num(w))

\* the date of the record at position t
RecordDate(t) == IF StateField = "date" THEN Strftime(df.rows[t].date) ELSE out[t].date

\* C16: for every price table, its rows in date order or not, a run that
\* returns has one record per row of the table; the records built are in
\* strictly ascending date order, the t-th carrying the t-th earliest date of
\* the table; the SMA of each date (here of the TLT proxy named rates) is the
\* mean over the window of dates up to it in date order, not in the order
\* the rows were supplied; and no step of the run changes the caller's table.
C16_DateOrder ==
    /\ [](/\ pc = "done" => Len(records) = Len(prices_wide.rows)
          /\ \A t \in 1..Len(out) :
                \E i \in 1..Len(prices_wide.rows) :
                    /\ RecordDate(t) = Strftime(prices_wide.rows[i].date)
                    /\ Cardinality({j \in 1..Len(prices_wide.rows) :
                           prices_wide.rows[j].date < prices_wide.rows[i].date}) = t - 1
          /\ \A t \in 1..(Len(out) - 1) : RecordDate(t)[3] < RecordDate(t + 1)[3]
          /\ \A k \in 1..Len(signal_data) : \A t \in 1..Len(out) :
                signal_data[k].name = "rates" =>
                    signal_data[k].sma[t]
                        = MeanOverDates(prices_wide.rows, "TLT", df.rows[t].date,
                                        RunWindow))
    /\ [][prices_wide' = prices_wide]_vars

\* a returned run over a table whose rows were supplied out of date order,
\* with a window of two or more and a date on which TLT is below its SMA
C16_Witness ==
    /\ pc = "done"
    /\ \E i, j \in 1..Len(prices_wide.rows) :
          i < j /\ prices_wide.rows[i].date > prices_wide.rows[j].date
    /\ Len(records) = MaxDates
    /\ RunWindow >= 2
    /\ \E t \in 1..Len(records) : records[t].signals["rates"] = "UP"

\* the tickers the run refers to: numerator, denominator and proxy tickers of
\* the signal definitions and the benchmark (the legacy path's are fixed)
Referenced ==
    IF config.none THEN {"XLE", "TLT", "XLK", "XLU", "SPY"}
    ELSE {Get(config.bench, "SPY")}
         \cup UNION {{config.signals[i].a, config.signals[i].b,
                      config.signals[i].ticker} \ {NoKey} :
                     i \in 1..Len(config.signals)}

\* the position of a ticker in string order
Rank(ticker) == CHOOSE i \in 1..Len(TickerOrder) : TickerOrder[i] = ticker

\* a list of exactly the tickers of a set, each once
ListsExactly(list, tickers) ==
    /\ Range(list) = tickers
    /\ \A i, j \in 1..Len(list) : i # j => list[i] # list[j]

\* a list in strictly ascending string order
AscendingList(list) ==
    \A i \in 1..(Len(list) - 1) : Rank(list[i]) < Rank(list[i + 1])

\* the SMA series of the run are those of window w
WindowUsed(w) ==
    \A k \in 1..Len(signal_data) :
        signal_data[k].sma = RollingMean(signal_data[k].value, w)

\* C17 (as claimed): in every record of every run, inputs.tickers is the
\* sorted, duplicate-free list of all tickers referenced by a signal
\* definition plus the benchmark ticker, and inputs.window is the window the
\* run's SMAs were computed with.
C17_InputsEveryRun ==
    \A t \in 1..Len(out) :
        /\ ListsExactly(out[t].inputs.tickers, Referenced)
        /\ AscendingList(out[t].inputs.tickers)
        /\ out[t].inputs.window = RunWindow
        /\ WindowUsed(out[t].inputs.window)

\* C17 (amended): in every record of a config-driven run, inputs.tickers is
\* the sorted, duplicate-free list of all tickers referenced by a signal
\* definition plus the benchmark ticker (SPY when not configured); in every
\* record of a legacy run it is the fixed list XLE, TLT, XLK, XLU, SPY, which
\* holds each referenced ticker once but is not sorted; in both, inputs.window
\* is the window the run's SMAs were computed with.
C17_Inputs ==
    \A t \in 1..Len(out) :
        /\ ListsExactly(out[t].inputs.tickers, Referenced)
        /\ IF config.none
           THEN out[t].inputs.tickers = <<"XLE", "TLT", "XLK", "XLU", "SPY">>
           ELSE AscendingList(out[t].inputs.tickers)
        /\ out[t].inputs.window = RunWindow
        /\ WindowUsed(out[t].inputs.window)

\* a returned config-driven run whose only signal is a proxy on TLT, so that
\* the benchmark SPY is in inputs.tickers without a definition naming it,
\* with the configuration's window in inputs.window
C17_Witness ==
    /\ pc = "done"
    /\ ~config.none
    /\ Len(records) >= 1
    /\ Len(config.signals) = 1
    /\ records[1].inputs.tickers = <<"SPY", "TLT">>
    /\ records[1].inputs.window = config.window
    /\ config.window # window

=============================================================================
